---- MODULE Spec2Model ----
(***************************************************************************)
(* ChemSP: graph shift operators (chemsp/graphs/graph_operators.py), the   *)
(* spectral basis and graph Fourier transform                              *)
(* (chemsp/signal_processing/signal_processing.py) and the older variants  *)
(* kept in chemsp/graphs/graph_operations.py.                              *)
(*                                                                         *)
(* Every Python call is modelled with its outcome: a value that is         *)
(* returned, or an exception that is raised.  numpy arrays are integer     *)
(* matrices (sequences of rows) and vectors.                               *)
(***************************************************************************)
EXTENDS Integers, Sequences, FiniteSets, TLC

\* Largest number of nodes / rows / columns of the inputs.
MaxN == 2

\* Entries of the matrices handed to degree, laplacian, fourier_basis, gft.
Vals == {0, 1}
\* Entries of signals.
SigVals == {-1, 1}
\* Feature values of a representation (one feature per representation).
RepVals == {0, 1}

\* numpy.allclose defaults: atol = 1e-8, rtol = 1e-5, both in units of atol.
ATolInv == 100000000
RTolOverATol == 1000

----------------------------------------------------------------------------
(* Python values and call outcomes *)

NdArray(rows) == [tag |-> "ndarray", rows |-> rows]
ListOf(rows) == [tag |-> "list", rows |-> rows]
Vector(data) == [tag |-> "vector", data |-> data]
Scalar(v) == [tag |-> "scalar", v |-> v]
Tuple(a, b) == [tag |-> "tuple", first |-> a, second |-> b]
Exception(type, msg) == [tag |-> "exception", type |-> type, msg |-> msg]
\* An object numpy.array() cannot convert: the conversion raises.
Uncoercible == [tag |-> "uncoercible"]
NoValue == [tag |-> "none"]

Return(v) == [kind |-> "return", val |-> v]
Raise(e) == [kind |-> "raise", val |-> e]
NoOutcome == [kind |-> "none", val |-> NoValue]

CoercionError == Exception("ValueError", "array conversion failed")
NotSymmetric ==
    Exception("AssertionError", "The provided graph shift operator is not symmetric.")
NotSquare ==
    Exception("AssertionError", "The provided graph shift operator is not square.")
DimensionMismatch ==
    Exception("AssertionError",
              "The number of eigenvectors must equal the dimension of the signal.")
ArrNameError == Exception("NameError", "name 'arr' is not defined")
BroadcastError == Exception("ValueError", "operands could not be broadcast together")
NoTranspose == Exception("AttributeError", "object has no attribute 'T'")
ShapeIndexError == Exception("IndexError", "tuple index out of range")
LinAlgError == Exception("LinAlgError", "Last 2 dimensions of the array must be square")
BatchedCallError == Exception("TypeError", "metric does not accept two arrays")
PairCallError == Exception("MetricError", "metric raised on a pair")

----------------------------------------------------------------------------
(* numpy helpers *)

Abs(a) == IF a < 0 THEN -a ELSE a

RECURSIVE SumSeq(_)
SumSeq(s) == IF s = <<>> THEN 0 ELSE Head(s) + SumSeq(Tail(s))

NRows(M) == Len(M)
NCols(M) == Len(M[1])

Transpose(M) == [j \in 1..NCols(M) |-> [i \in 1..NRows(M) |-> M[i][j]]]

\* np.sum(M, axis=0): entry j is the sum of column j.
SumAxis0(M) == [j \in 1..NCols(M) |-> SumSeq([i \in 1..NRows(M) |-> M[i][j]])]
\* The sum of row i.
RowSum(M, i) == SumSeq(M[i])

\* np.array(obj): the conversion of a non-array argument.
np_array(obj) ==
    IF obj.tag = "uncoercible" THEN Raise(CoercionError)
    ELSE Return(NdArray(obj.rows))

\* abs(a - b) <= atol + rtol * abs(b), scaled by 1 / atol.
isclose(a, b) == Abs(a - b) * ATolInv <= 1 + RTolOverATol * Abs(b)

\* Two shapes broadcast when each dimension agrees or one of the two is 1.
Broadcastable(M, T) ==
    /\ (NRows(M) = NRows(T) \/ NRows(M) = 1 \/ NRows(T) = 1)
    /\ (NCols(M) = NCols(T) \/ NCols(M) = 1 \/ NCols(T) = 1)

Max(a, b) == IF a >= b THEN a ELSE b

\* Entry [i][j] of M stretched to the broadcast shape.
BroadcastAt(M, i, j) ==
    M[IF NRows(M) = 1 THEN 1 ELSE i][IF NCols(M) = 1 THEN 1 ELSE j]

\* np.allclose(M, T) for broadcastable M, T.
allclose(M, T) ==
    \A i \in 1..Max(NRows(M), NRows(T)) : \A j \in 1..Max(NCols(M), NCols(T)) :
        isclose(BroadcastAt(M, i, j), BroadcastAt(T, i, j))

\* basis.T @ signal
MatTVec(M, v) == [j \in 1..NCols(M) |-> SumSeq([i \in 1..NRows(M) |-> M[i][j] * v[i]])]
\* basis @ coefficients
MatVec(M, v) == [i \in 1..NRows(M) |-> SumSeq([j \in 1..NCols(M) |-> M[i][j] * v[j]])]

IsSquare(M) == NRows(M) = NCols(M)
IsSymmetric(M) == IsSquare(M) /\ \A i, j \in 1..NRows(M) : M[i][j] = M[j][i]

----------------------------------------------------------------------------
(* graph_operators.py: degree, laplacian *)

\* A plausible slip: the degree counts only the edges to other nodes.
degree_noself(A) ==
    LET c == IF A.tag # "ndarray" THEN np_array(A) ELSE Return(A)
    IN  IF c.kind = "raise" THEN Return(c.val)
        ELSE LET M == c.val.rows
             IN  Return(NdArray(
                    [i \in 1..NRows(M) |-> [j \in 1..NCols(M) |->
                        IF i = j THEN SumAxis0(M)[j] - M[j][j] ELSE 0]]))

\* degree(adjacency): zeros_like, then the diagonal filled with np.sum(axis=0).
\* A failed conversion is returned as the function's value, not raised.
degree(A) ==
    LET c == IF A.tag # "ndarray" THEN np_array(A) ELSE Return(A)
    IN  IF c.kind = "raise" THEN Return(c.val)
        ELSE LET M == c.val.rows
             IN  Return(NdArray(
                    [i \in 1..NRows(M) |-> [j \in 1..NCols(M) |->
                        IF i = j THEN SumAxis0(M)[j] ELSE 0]]))

\* laplacian(adjacency): degree(adjacency) - adjacency.
laplacian(A) ==
    LET c == IF A.tag # "ndarray" THEN np_array(A) ELSE Return(A)
    IN  IF c.kind = "raise" THEN Return(c.val)
        ELSE LET M == c.val.rows
                 D == degree(c.val).val.rows
             IN  Return(NdArray(
                    [i \in 1..NRows(M) |-> [j \in 1..NCols(M) |-> D[i][j] - M[i][j]]]))

----------------------------------------------------------------------------
(* signal_processing.py: fourier_basis, gft *)

\* The corrected body the docstring describes is not what the file holds: the
\* eigendecomposition is asked of the name arr, which the module never binds.
\* The two assertions run in the order written: symmetry first, then squareness.
fourier_basis(gso, return_vals) ==
    IF gso.tag = "exception" THEN Raise(NoTranspose)          \* gso.T
    ELSE IF gso.tag = "scalar" THEN Raise(ShapeIndexError)    \* gso.shape[0] of ()
    ELSE LET M == gso.rows
         IN  IF ~Broadcastable(M, Transpose(M)) THEN Raise(BroadcastError)
             ELSE IF ~allclose(M, Transpose(M)) THEN Raise(NotSymmetric)
             ELSE IF NRows(M) # NCols(M) THEN Raise(NotSquare)
             ELSE Raise(ArrNameError)

\* A plausible slip: the signal is cut or zero-padded to the basis' rows.
gft_truncating(basis, signal) ==
    LET M == basis.rows
        v == [i \in 1..NRows(M) |->
                IF i <= Len(signal.data) THEN signal.data[i] ELSE 0]
    IN  Return(Vector(MatTVec(M, v)))

\* gft(fourier_basis, signal): the assertion, then fourier_basis.T @ signal.
gft(basis, signal) ==
    IF NRows(basis.rows) # Len(signal.data) THEN Raise(DimensionMismatch)
    ELSE Return(Vector(MatTVec(basis.rows, signal.data)))

\* The expression of the round trip: Q = fourier_basis(L), Q @ gft(Q, S).
RoundTrip(L, S) ==
    LET q == fourier_basis(L, FALSE)
    IN  IF q.kind = "raise" THEN q
        ELSE LET c == gft(q.val, S)
             IN  IF c.kind = "raise" THEN c
                 ELSE Return(Vector(MatVec(q.val.rows, c.val.data)))

----------------------------------------------------------------------------
(* graph_operations.py: Fourier, the variant that decomposes its argument *)

Perms(n) == {f \in [1..n -> 1..n] : \A a, b \in 1..n : f[a] = f[b] => a = b}
Signs(n) == [1..n -> {-1, 1}]

Ascending(s) == \A a, b \in 1..Len(s) : a <= b => s[a] <= s[b]

\* np.linalg.eigh reads the lower triangle only.
LowerDiagonal(M) == \A i, j \in 1..NRows(M) : j < i => M[i][j] = 0

\* np.linalg.eigh(M) of a matrix whose lower triangle is diagonal: the
\* eigenvalues are the diagonal in ascending order, column c of the
\* eigenvectors is a unit vector of the axis that holds eigenvalue c, of
\* either sign; ties may come in any order.
eigh(M) ==
    LET n == NRows(M)
    IN  { [values  |-> [c \in 1..n |-> M[p[c]][p[c]]],
           vectors |-> [i \in 1..n |-> [c \in 1..n |-> IF i = p[c] THEN s[c] ELSE 0]]]
          : <<p, s>> \in { ps \in Perms(n) \X Signs(n) :
                            Ascending([c \in 1..n |-> M[ps[1][c]][ps[1][c]]]) } }

\* Fourier(arr, return_vals): no validation; eigh(arr) of the argument itself.
Fourier(arr, return_vals) ==
    IF ~IsSquare(arr.rows) THEN {Raise(LinAlgError)}
    ELSE { IF return_vals
           THEN Return(Tuple(NdArray(e.vectors), Vector(e.values)))
           ELSE Return(NdArray(e.vectors)) : e \in eigh(arr.rows) }

----------------------------------------------------------------------------
(* The metric handed to adjacency: a callable of the caller *)

NoRep == << >>
Reps == {<<v>> : v \in RepVals}

\* pair: what the metric computes of two representations
\*   "cityblock": sum |x - y| (symmetric); "directed": sum (x - y) (not symmetric)
\* batch: what the call metric(X, X) on two whole arrays does
\*   "matrix": returns all pairwise values (the sklearn kernel / cdist convention)
\*   "raises": fails, the callable takes two instances only
\*   "scalar": array arithmetic goes through and reduces to one number
\* bad: a representation on which the pairwise call raises (NoRep: none)
Metrics == [pair : {"cityblock", "directed"},
            batch : {"matrix", "raises", "scalar"},
            bad : Reps \cup {NoRep}]

PairValue(K, x, y) ==
    IF K.pair = "cityblock"
    THEN SumSeq([k \in 1..Len(x) |-> Abs(x[k] - y[k])])
    ELSE SumSeq([k \in 1..Len(x) |-> x[k] - y[k]])

\* metric(x, y) on two instances.
PairCall(K, x, y) ==
    IF x = K.bad \/ y = K.bad THEN Raise(PairCallError)
    ELSE Return(Scalar(PairValue(K, x, y)))

\* metric(X, X) on the whole array.
BatchedCall(K, rows) ==
    IF K.batch = "raises" THEN Raise(BatchedCallError)
    ELSE IF K.batch = "matrix"
    THEN Return(NdArray([a \in 1..Len(rows) |-> [b \in 1..Len(rows) |->
                            PairValue(K, rows[a], rows[b])]]))
    ELSE Return(Scalar(SumSeq([a \in 1..Len(rows) |-> PairValue(K, rows[a], rows[a])])))

----------------------------------------------------------------------------
(* adjacency as one function of its arguments, and the composition by hand *)

\* The first pair, in the order of the comprehension, on which metric raises.
PairRaises(K, rows) ==
    \E a, b \in 1..Len(rows) : PairCall(K, rows[a], rows[b]).kind = "raise"

\* adjacency(X, metric): what the caller gets.
AdjacencyOf(x, k) ==
    LET c == IF x.tag # "ndarray" THEN np_array(x) ELSE Return(x)
    IN  IF c.kind = "raise" THEN Return(c.val)
        ELSE LET rows == c.val.rows
                 b == BatchedCall(k, rows)
             IN  IF b.kind = "return" THEN b
                 ELSE IF PairRaises(k, rows) THEN Raise(PairCallError)
                 ELSE Return(NdArray([a \in 1..Len(rows) |-> [d \in 1..Len(rows) |->
                                        PairCall(k, rows[a], rows[d]).val.v]]))

\* gft(fourier_basis(adjacency(X, K)), S), written out by a caller.
ManualComposition(x, k, s) ==
    LET a == AdjacencyOf(x, k)
    IN  IF a.kind = "raise" THEN a
        ELSE LET q == fourier_basis(a.val, FALSE)
             IN  IF q.kind = "raise" THEN q ELSE gft(q.val, s)

----------------------------------------------------------------------------
(* Inputs *)

\* Matrices of up to MaxN rows and MaxN + 1 columns: square ones, and ones that
\* are not, among them shapes that do not broadcast against their transpose.
AllMatrices ==
    UNION {[1..r -> [1..c -> Vals]] : <<r, c>> \in (1..MaxN) \X (1..(MaxN + 1))}
Signals == UNION {[1..n -> SigVals] : n \in 1..(MaxN + 1)}
RepSeqs == UNION {[1..n -> Reps] : n \in 1..MaxN}

\* A representation set: an array, a list that converts, or an object that does not.
XInputs == {NdArray(r) : r \in RepSeqs} \cup {ListOf(r) : r \in RepSeqs} \cup {Uncoercible}
MatrixArgs ==
    {NdArray(m) : m \in AllMatrices} \cup {ListOf(m) : m \in AllMatrices} \cup {Uncoercible}
Arrays == {NdArray(m) : m \in AllMatrices}
EighArrays == {NdArray(m) : m \in {w \in AllMatrices : IsSquare(w) => LowerDiagonal(w)}}

----------------------------------------------------------------------------
(* State: the call in progress *)

VARIABLES
    fn,       \* the function the caller called
    X, K,     \* adjacency / fourier_decomposition: representations and metric
    A,        \* degree, laplacian, fourier_basis, Fourier, gft: the matrix argument
    S,        \* gft, fourier_decomposition: the signal
    rv,       \* fourier_basis, Fourier: return_vals
    pc,       \* the position in the call
    i, j,     \* adjacency: the pair the fallback comprehension is at
    acc,      \* adjacency: the values the comprehension has collected, row by row
    log,      \* every call made of the metric, in order
    stages,   \* fourier_decomposition: the stages entered, in order
    adjOut,   \* fourier_decomposition: the value adjacency returned
    result    \* the outcome the caller sees

vars == <<fn, X, K, A, S, rv, pc, i, j, acc, log, stages, adjOut, result>>

Init ==
    /\ fn = "none" /\ X = NoValue /\ K = NoValue /\ A = NoValue /\ S = NoValue
    /\ rv = FALSE /\ pc = "idle" /\ i = 0 /\ j = 0 /\ acc = << >> /\ log = << >>
    /\ stages = << >> /\ adjOut = NoValue /\ result = NoOutcome

\* degree(adjacency), called by the caller.
CallDegree ==
    /\ pc = "idle"
    /\ \E a \in MatrixArgs : fn' = "degree" /\ A' = a /\ result' = degree(a)
    /\ S' = NoValue /\ rv' = FALSE /\ pc' = "done"
    /\ UNCHANGED <<X, K, i, j, acc, log, stages, adjOut>>

\* laplacian(adjacency), called by the caller.
CallLaplacian ==
    /\ pc = "idle"
    /\ \E a \in MatrixArgs : fn' = "laplacian" /\ A' = a /\ result' = laplacian(a)
    /\ S' = NoValue /\ rv' = FALSE /\ pc' = "done"
    /\ UNCHANGED <<X, K, i, j, acc, log, stages, adjOut>>

\* fourier_basis(gso, return_vals), called by the caller.
CallFourierBasis ==
    /\ pc = "idle"
    /\ \E a \in Arrays, r \in BOOLEAN :
        fn' = "fourier_basis" /\ A' = a /\ rv' = r /\ result' = fourier_basis(a, r)
    /\ S' = NoValue /\ pc' = "done"
    /\ UNCHANGED <<X, K, i, j, acc, log, stages, adjOut>>

\* Fourier(arr, return_vals), called by the caller.
CallFourier ==
    /\ pc = "idle"
    /\ \E a \in EighArrays, r \in BOOLEAN : \E out \in Fourier(a, r) :
        fn' = "Fourier" /\ A' = a /\ rv' = r /\ result' = out
    /\ S' = NoValue /\ pc' = "done"
    /\ UNCHANGED <<X, K, i, j, acc, log, stages, adjOut>>

\* gft(fourier_basis, signal), called by the caller.
CallGft ==
    /\ pc = "idle"
    /\ \E b \in Arrays, s \in Signals :
        fn' = "gft" /\ A' = b /\ S' = Vector(s) /\ result' = gft(b, Vector(s))
    /\ rv' = FALSE /\ pc' = "done"
    /\ UNCHANGED <<X, K, i, j, acc, log, stages, adjOut>>

\* Q = fourier_basis(L); Q @ gft(Q, S), evaluated by the caller.
CallRoundTrip ==
    /\ pc = "idle"
    /\ \E L \in Arrays, s \in Signals :
        fn' = "round_trip" /\ A' = L /\ S' = Vector(s)
        /\ result' = RoundTrip(L, Vector(s))
    /\ rv' = FALSE /\ pc' = "done"
    /\ UNCHANGED <<X, K, i, j, acc, log, stages, adjOut>>

----------------------------------------------------------------------------
(* graph_operators.py: adjacency, statement by statement *)

BatchedEntry(rows) == [conv |-> "batched", i |-> 0, j |-> 0, args |-> <<rows, rows>>]
PairEntry(a, b, rows) == [conv |-> "pair", i |-> a, j |-> b, args |-> <<rows[a], rows[b]>>]

\* adjacency(X, metric), called by the caller.
CallAdjacency ==
    /\ pc = "idle"
    /\ \E x \in XInputs, k \in Metrics : fn' = "adjacency" /\ X' = x /\ K' = k
    /\ S' = NoValue /\ pc' = "adj_coerce" /\ stages' = << >>
    /\ UNCHANGED <<A, rv, i, j, acc, log, adjOut, result>>

\* fourier_decomposition(X, K, S): adj = adjacency(X, K)
CallFourierDecomposition ==
    /\ pc = "idle"
    /\ \E x \in XInputs, k \in Metrics, s \in Signals :
        fn' = "fourier_decomposition" /\ X' = x /\ K' = k /\ S' = Vector(s)
    /\ pc' = "adj_coerce" /\ stages' = <<"adjacency">>
    /\ UNCHANGED <<A, rv, i, j, acc, log, adjOut, result>>

\* adjacency is left with outcome out: an exception unwinds to the caller of
\* whatever was called; a value goes to the caller, or to the next statement
\* of fourier_decomposition.
AdjacencyEnds(out) ==
    IF out.kind = "raise" \/ fn = "adjacency"
    THEN result' = out /\ pc' = "done" /\ adjOut' = adjOut
    ELSE result' = result /\ pc' = "fd_basis" /\ adjOut' = out.val

\* if not isinstance(X, np.ndarray): try: X = np.array(X) / except: return e
AdjCoerce ==
    /\ pc = "adj_coerce"
    /\ LET c == IF X.tag # "ndarray" THEN np_array(X) ELSE Return(X)
       IN  IF c.kind = "raise"
           THEN AdjacencyEnds(Return(c.val)) /\ X' = X
           ELSE X' = c.val /\ pc' = "adj_batch" /\ UNCHANGED <<result, adjOut>>
    /\ UNCHANGED <<fn, K, A, S, rv, i, j, acc, log, stages>>

\* A plausible slip: no try around the batched call, its failure reaches the caller.
AdjBatch_propagates ==
    /\ pc = "adj_batch"
    /\ log' = Append(log, BatchedEntry(X.rows))
    /\ AdjacencyEnds(BatchedCall(K, X.rows))
    /\ UNCHANGED <<fn, X, K, A, S, rv, i, j, acc, stages>>

\* try: adj = metric(X, X); return adj / except: (the comprehension)
AdjBatch ==
    /\ pc = "adj_batch"
    /\ log' = Append(log, BatchedEntry(X.rows))
    /\ LET b == BatchedCall(K, X.rows)
       IN  IF b.kind = "return"
           THEN AdjacencyEnds(b) /\ UNCHANGED <<i, j, acc>>
           ELSE pc' = "adj_pair" /\ i' = 1 /\ j' = 1 /\ acc' = << >>
                /\ UNCHANGED <<result, adjOut>>
    /\ UNCHANGED <<fn, X, K, A, S, rv, stages>>

\* The rows of an n x n array from its n * n values in row-major order.
Reshape(flat, n) == [a \in 1..n |-> [b \in 1..n |-> flat[(a - 1) * n + b]]]

\* One evaluation of metric(x, y) in
\* np.array([[metric(x, y) for y in X] for x in X]); the last one builds the array.
AdjPair ==
    /\ pc = "adj_pair"
    /\ log' = Append(log, PairEntry(i, j, X.rows))
    /\ LET n == Len(X.rows)
           c == PairCall(K, X.rows[i], X.rows[j])
       IN  IF c.kind = "raise"
           THEN AdjacencyEnds(c) /\ UNCHANGED <<i, j, acc>>
           ELSE /\ acc' = Append(acc, c.val.v)
                /\ IF i = n /\ j = n
                   THEN AdjacencyEnds(Return(NdArray(Reshape(acc', n))))
                        /\ UNCHANGED <<i, j>>
                   ELSE /\ j' = IF j = n THEN 1 ELSE j + 1
                        /\ i' = IF j = n THEN i + 1 ELSE i
                        /\ UNCHANGED <<pc, result, adjOut>>
    /\ UNCHANGED <<fn, X, K, A, S, rv, stages>>

----------------------------------------------------------------------------
(* signal_processing.py: fourier_decomposition after adjacency returned *)

\* eigenvectors = fourier_basis(adj); return gft(eigenvectors, S)
FdRest ==
    /\ pc = "fd_basis"
    /\ LET q == fourier_basis(adjOut, FALSE)
       IN  IF q.kind = "raise"
           THEN result' = q /\ stages' = Append(stages, "fourier_basis")
           ELSE result' = gft(q.val, S)
                /\ stages' = stages \o <<"fourier_basis", "gft">>
    /\ pc' = "done"
    /\ UNCHANGED <<fn, X, K, A, S, rv, i, j, acc, log, adjOut>>

\* The caller has its outcome; nothing is kept for the next call.
NextCall ==
    /\ pc = "done"
    /\ fn' = "none" /\ X' = NoValue /\ K' = NoValue /\ A' = NoValue /\ S' = NoValue
    /\ rv' = FALSE /\ pc' = "idle" /\ i' = 0 /\ j' = 0 /\ acc' = << >> /\ log' = << >>
    /\ stages' = << >> /\ adjOut' = NoValue /\ result' = NoOutcome

Next ==
    \/ CallDegree \/ CallLaplacian \/ CallFourierBasis \/ CallFourier \/ CallGft
    \/ CallRoundTrip \/ CallAdjacency \/ CallFourierDecomposition
    \/ AdjCoerce \/ AdjBatch \/ AdjPair \/ FdRest \/ NextCall

Spec == Init /\ [][Next]_vars

----------------------------------------------------------------------------
(* Properties *)

Done(f) == pc = "done" /\ fn = f

Identity(n) == [a \in 1..n |-> [b \in 1..n |-> IF a = b THEN 1 ELSE 0]]
MatMul(P, Q) ==
    [a \in 1..NRows(P) |-> [b \in 1..NCols(Q) |->
        SumSeq([c \in 1..NCols(P) |-> P[a][c] * Q[c][b]])]]
Column(Q, c) == [a \in 1..NRows(Q) |-> Q[a][c]]
Scaled(mu, v) == [a \in 1..Len(v) |-> mu * v[a]]

\* Q is a full orthonormal eigenbasis of L; with the eigenvalues given, they are
\* ascending and column c belongs to eigenvalue c.
SpectralBasisOf(L, val, withVals) ==
    LET n == NRows(L)
        Q == IF withVals THEN val.first.rows ELSE val.rows
    IN  /\ val.tag = (IF withVals THEN "tuple" ELSE "ndarray")
        /\ NRows(Q) = n /\ NCols(Q) = n
        /\ MatMul(Transpose(Q), Q) = Identity(n)
        /\ IF withVals
           THEN /\ Len(val.second.data) = n
                /\ Ascending(val.second.data)
                /\ \A c \in 1..n :
                     MatVec(L, Column(Q, c)) = Scaled(val.second.data[c], Column(Q, c))
           ELSE \A c \in 1..n : \E mu \in (0 - n)..n :
                     MatVec(L, Column(Q, c)) = Scaled(mu, Column(Q, c))

\* The variant Fourier of graph_operations.py does decompose its argument.
FourierDecomposesItsArgument ==
    (Done("Fourier") /\ IsSymmetric(A.rows)) =>
        result.kind = "return" /\ SpectralBasisOf(A.rows, result.val, rv)

\* C1: for every square symmetric L, fourier_basis(L) returns a full N x N
\* orthonormal eigenbasis of L (with return_vals, also the N eigenvalues in
\* non-decreasing order, column i belonging to eigenvalue i), computed from L.
C1_FourierBasisReturnsEigenbasis ==
    (Done("fourier_basis") /\ IsSymmetric(A.rows)) =>
        result.kind = "return" /\ SpectralBasisOf(A.rows, result.val, rv)

\* C2: fourier_basis of a matrix that is not square, or square and not
\* symmetric, raises the validation error that names the violated check.
C2_ValidationNamesTheCheck ==
    (Done("fourier_basis") /\ ~IsSymmetric(A.rows)) =>
        /\ result.kind = "raise"
        /\ result.val = (IF IsSquare(A.rows) THEN NotSymmetric ELSE NotSquare)

\* C3: for every square A, degree(A) has A's shape, zeros off the diagonal and
\* the sum of row i of A at [i, i].
C3_DegreeIsRowSum ==
    (Done("degree") /\ A.tag # "uncoercible" /\ IsSquare(A.rows)) =>
        /\ result.kind = "return" /\ result.val.tag = "ndarray"
        /\ result.val.rows =
              [a \in 1..NRows(A.rows) |-> [b \in 1..NCols(A.rows) |->
                  IF a = b THEN RowSum(A.rows, a) ELSE 0]]

\* C4: for every symmetric L and signal S of L's size, Q = fourier_basis(L)
\* gives Q . gft(Q, S) = S.
C4_RoundTrip ==
    (Done("round_trip") /\ IsSymmetric(A.rows) /\ Len(S.data) = NRows(A.rows)) =>
        result = Return(S)

\* C5: gft with a signal whose length is not the number of rows of the basis
\* raises the dimension-mismatch error and returns no coefficients.
C5_GftRejectsMismatch ==
    (Done("gft") /\ Len(S.data) # NRows(A.rows)) => result = Raise(DimensionMismatch)

C5_Witness ==
    /\ Done("gft") /\ Len(S.data) = NRows(A.rows) + 1
    /\ NRows(A.rows) = NCols(A.rows) /\ result.kind = "raise"

\* The adjacency stage fails when the representations cannot be converted or
\* when a pairwise evaluation raises.
AdjacencyStageError ==
    IF X.tag = "uncoercible" THEN Raise(CoercionError) ELSE AdjacencyOf(X, K)

\* C6: fourier_decomposition(X, K, S) ends as gft(fourier_basis(adjacency(X, K)), S)
\* does, and when a stage fails its error is what the caller gets, with no later
\* stage entered.
C6_PipelineIsComposition ==
    Done("fourier_decomposition") =>
        /\ result = ManualComposition(X, K, S)
        /\ AdjacencyStageError.kind = "raise" =>
              result = AdjacencyStageError /\ stages = <<"adjacency">>
        /\ result.kind = "return" => stages = <<"adjacency", "fourier_basis", "gft">>

\* What adjacency handed back, once it has.
AdjacencyLeft == (pc = "done" /\ fn = "adjacency") \/ pc = "fd_basis"
AdjacencyOutcome == IF pc = "fd_basis" THEN Return(adjOut) ELSE result

\* C7: adjacency makes one batched call metric(X, X) first; if it returns, its
\* value is the result and no pairwise call is made; if it fails, the failure is
\* not surfaced and metric(x, y) is evaluated once for every ordered pair, entry
\* [i][j] being metric(X[i], X[j]); only a failure of a pairwise call reaches
\* the caller.
C7_BatchedThenPairwise ==
    /\ \A k \in 1..Len(log) : (log[k].conv = "batched") <=> (k = 1)
    /\ Len(log) >= 1 => log[1] = BatchedEntry(X.rows)
    /\ Len(log) >= 2 => BatchedCall(K, X.rows).kind = "raise"
    /\ \A k \in 2..Len(log) :
          /\ log[k] = PairEntry(log[k].i, log[k].j, X.rows)
          /\ \A l \in 2..Len(log) :
                (log[l].i = log[k].i /\ log[l].j = log[k].j) => l = k
    /\ (AdjacencyLeft /\ X.tag = "ndarray") =>
          LET n == Len(X.rows)
              b == BatchedCall(K, X.rows)
              out == AdjacencyOutcome
          IN  IF b.kind = "return"
              THEN out = b /\ Len(log) = 1
              ELSE IF out.kind = "return"
              THEN /\ Len(log) = 1 + n * n
                   /\ \A a, d \in 1..n : \E k \in 2..Len(log) :
                         log[k].i = a /\ log[k].j = d
                   /\ out.val = NdArray([a \in 1..n |-> [d \in 1..n |->
                                            PairValue(K, X.rows[a], X.rows[d])]])
              ELSE /\ out.val = PairCallError
                   /\ LET last == log[Len(log)]
                      IN  PairCall(K, last.args[1], last.args[2]).kind = "raise"

C7_Witness ==
    /\ Done("adjacency") /\ X.tag = "ndarray" /\ Len(X.rows) = 2 /\ Len(log) = 5
    /\ result.kind = "return" /\ result.val.rows[1][2] # result.val.rows[2][1]

\* C8: when X cannot be converted, adjacency raises the coercion error carrying
\* the original error, and the metric is never called.
C8_CoercionFailureRaises ==
    (Done("adjacency") /\ X.tag = "uncoercible") =>
        result = Raise(CoercionError) /\ log = << >>

\* C9: for every representation set of size N and every symmetric metric that
\* never fails, whichever calling convention it supports, adjacency returns an
\* N x N symmetric matrix.
C9_SymmetricMetricSymmetricAdjacency ==
    (Done("adjacency") /\ X.tag = "ndarray" /\ K.pair = "cityblock" /\ K.bad = NoRep) =>
        /\ result.kind = "return" /\ result.val.tag = "ndarray"
        /\ NRows(result.val.rows) = Len(X.rows)
        /\ IsSymmetric(result.val.rows)

\* C10: for every square symmetric A, laplacian(A) is degree(A) - A entry by
\* entry and each of its rows sums to 0, whatever A's diagonal holds.
C10_LaplacianRowsSumToZero ==
    (Done("laplacian") /\ A.tag # "uncoercible" /\ IsSymmetric(A.rows)) =>
        /\ result.kind = "return" /\ result.val.tag = "ndarray"
        /\ result.val.rows =
              [a \in 1..NRows(A.rows) |-> [b \in 1..NCols(A.rows) |->
                  (IF a = b THEN RowSum(A.rows, a) ELSE 0) - A.rows[a][b]]]
        /\ \A a \in 1..NRows(A.rows) : RowSum(result.val.rows, a) = 0

C10_Witness ==
    /\ Done("laplacian") /\ A = NdArray(<<<<1, 1>>, <<1, 1>>>>)
    /\ result = Return(NdArray(<<<<1, -1>>, <<-1, 1>>>>))

====
